---- MODULE Spec2Model ----
(***************************************************************************)
(* TimeTaggerRPC server: the adapter registry and the per-connection       *)
(* resource tracking of TimeTaggerRPC/server.py, and the client bootstrap  *)
(* of TimeTaggerRPC/client.py.                                             *)
(*                                                                         *)
(* An adapter is a Python object of a class derived from TrackedResource.  *)
(* Adapters are numbered 1, 2, ... in the order of their construction; the *)
(* number stands for the uuid4 suffix of the adapter's _id.  Native        *)
(* objects of the TimeTagger library are numbered the same way.            *)
(***************************************************************************)
EXTENDS Integers, Sequences, FiniteSets, TLC

\* ---------------------------------------------------------------- bounds
\* Adapters are made while there are fewer than MaxAdapters; under
\* SpecGroup getTagger has room for MaxViews more.
MaxAdapters == 3
MaxViews == 1
NumConns == 2
MaxFree == 1
\* Arrays have at most MaxRank dimensions of at most MaxDim entries each.
MaxRank == 2
MaxDim == 2

\* ------------------------------------------------------------- constants
None == 0 - 1
rpc_obj == 0

Conns == 1..NumConns

TaggerKind == "Tagger"
IteratorKind == "Iterator"
GroupKind == "SynchronizedGroup"
DataKind == "DataObject"

\* Outcomes of the native device-free call TT.freeTimeTagger.
FreeOutcomes == {"ok", "AttributeError", "Error"}

VARIABLES
    kind,          \* kind[a]: the adapter class of adapter a
    obj,           \* obj[a]: self._obj, a native handle or None
    ttb,           \* ttb[a]: self._ttb_adaptor, an adapter or None (attribute absent)
    objectsById,   \* the daemon's registry: object id -> registered object
    tracked,       \* tracked[c]: the resources tracked for connection c
    nkind,         \* nkind[h]: the class of native object h
    nparent,       \* nparent[h]: the native object h was obtained from, or None
    freeCalls,     \* freeCalls[h]: device-free calls made on native object h
    members,       \* members[h]: measurements registered in native group h
    clientRoot,    \* object ids for which a client holds a root proxy
    native_of,     \* history: the native object adapter a was constructed around
    explicitFree,  \* history: native objects passed to the library's freeTimeTagger
    closeInvoked,  \* history: adapters on which close has been invoked
    closeDone,     \* history: adapters on which a close has run to its end
    reclosed,      \* history: adapters closed again after a close that ran to its end
    last,          \* the request served last and its outcome
    codec,         \* the array payload in flight: helper.py's converters
    lib,           \* the members of the native library module TT
    rpc,           \* the library adapter class made at startup, or NotBuilt
    closing,       \* adapters whose close has set _obj to None and has not yet
                   \* untracked and unregistered them
    pending        \* <<c, g>>: the thread of connection c is in getTagger of
                   \* group adapter g, past the hasattr test

vars == <<kind, obj, ttb, objectsById, tracked, nkind, nparent, freeCalls, members,
          clientRoot, native_of, explicitFree, closeInvoked, closeDone, reclosed, last,
          codec, lib, rpc, closing, pending>>


\* ------------------------------------------------------------ identities
\* TrackedResource._id: the class name and a fresh uuid4 suffix.
Id(k, a) == <<k, a>>

\* The id under which start_server registers the library adapter.
RootObjectId == <<"TimeTaggerRPC", 0>>

\* The default of createProxy's _objectId parameter.
DefaultObjectId == <<"TimeTagger", 0>>

\* An identity that was never issued by the server.
FabricatedId == <<TaggerKind, MaxAdapters + MaxViews + 1>>

NoId == <<"", 0>>

\* The connection recorded for a request whose handler does not use the
\* connection it is served on.
NoConn == 0

Adapters == 1..Len(kind)
Natives == 1..Len(nkind)
IdOf(a) == Id(kind[a], a)

\* The identities a client holds a proxy of class k for, live or stale.
ProxiesOf(k) == {IdOf(a) : a \in {x \in Adapters : kind[x] = k}}
Proxies == {IdOf(a) : a \in Adapters}

\* The references a client passes for a parameter of class k: a proxy of
\* that class, live or stale, or a fabricated identity.
RefsOf(k) == ProxiesOf(k) \cup {FabricatedId}

\* ---------------------------------------------------------------- daemon
\* Daemon.proxy2object: objectsById.get(objectId), None when absent.
proxy2object_first(reg, ref) ==
    IF ref \in DOMAIN reg THEN reg[ref]
    ELSE IF \E r \in DOMAIN reg : reg[r] # rpc_obj
         THEN reg[CHOOSE r \in DOMAIN reg : reg[r] # rpc_obj]
         ELSE None

proxy2object(reg, ref) ==
    IF ref \in DOMAIN reg THEN reg[ref] ELSE None

\* daemon.register(pyro_obj, pyro_obj._id): sets pyro_obj._pyroDaemon.
register(reg, a, k) == reg @@ (Id(k, a) :> a)

has_pyroDaemon_never(reg, a) == FALSE

\* hasattr(self, '_pyroDaemon'): the attribute exists from register to unregister.
has_pyroDaemon(reg, a) == IdOf(a) \in DOMAIN reg /\ reg[IdOf(a)] = a

unregister_keep(reg, a) == reg

unregister_all(reg, a) == [r \in {x \in DOMAIN reg : reg[x] = rpc_obj} |-> reg[r]]

\* self._pyroDaemon.unregister(self)
unregister(reg, a) == [r \in DOMAIN reg \ {IdOf(a)} |-> reg[r]]

\* current_context.track_resource(self): the adapter joins the resource set
\* of the connection that serves the current call.
track_resource(tr, c, a) == [tr EXCEPT ![c] = @ \cup {a}]

untrack_resource_all(tr, a) == [c \in Conns |-> {}]

\* current_context.untrack_resource(self): the adapter leaves the resource
\* set that tracks it.
untrack_resource(tr, a) == [c \in Conns |-> tr[c] \ {a}]

\* x._obj exists: x is an adapter (neither None nor the library adapter).
has_obj(x) == x # None /\ x # rpc_obj

\* ---------------------------------------------------------------- native
\* isinstance(h, TT.TimeTaggerBase)
isTimeTaggerBase(h) == h # None /\ nkind[h] = TaggerKind

\* The native library accepts h as the tagger of a new measurement or group.
NativeTaggerOk(h) == isTimeTaggerBase(h) /\ freeCalls[h] = 0

\* The native library accepts h as a measurement of a group.
NativeIteratorOk(h) == h # None /\ nkind[h] = IteratorKind

\* getattr(self._obj, name) of a forwarded member: None has no public attribute.
forward_ok_none(h) == TRUE

forward_ok(h) == h # None

\* ----------------------------------------------------------------- close
\* The part of the state TrackedResource.close works on.
Cur == [obj |-> obj, objectsById |-> objectsById, tracked |-> tracked,
        freeCalls |-> freeCalls, closeInvoked |-> closeInvoked,
        closeDone |-> closeDone, reclosed |-> reclosed]

close_keep_obj(s, a, out) ==
    LET h == s.obj[a]
        free == isTimeTaggerBase(h)
        raised == free /\ out = "Error"
        s1 == [s EXCEPT !.freeCalls =
                  IF free THEN [@ EXCEPT ![h] = @ + 1] ELSE @,
                  !.closeInvoked = @ \cup {a},
                  !.reclosed = IF a \in s.closeDone THEN @ \cup {a} ELSE @]
    IN IF raised
       THEN [s |-> s1, raised |-> TRUE, freed |-> free]
       ELSE [s |-> [s1 EXCEPT !.tracked = untrack_resource(@, a),
                              !.objectsById = IF has_pyroDaemon(@, a)
                                              THEN unregister(@, a) ELSE @,
                              !.closeDone = @ \cup {a}],
             raised |-> FALSE, freed |-> free]

close_raise_any(s, a, out) ==
    LET h == s.obj[a]
        free == isTimeTaggerBase(h)
        raised == free /\ out # "ok"
        s1 == [s EXCEPT !.freeCalls =
                  IF free THEN [@ EXCEPT ![h] = @ + 1] ELSE @,
                  !.obj = [@ EXCEPT ![a] = None],
                  !.closeInvoked = @ \cup {a},
                  !.reclosed = IF a \in s.closeDone THEN @ \cup {a} ELSE @]
    IN IF raised
       THEN [s |-> s1, raised |-> TRUE, freed |-> free]
       ELSE [s |-> [s1 EXCEPT !.tracked = untrack_resource(@, a),
                              !.objectsById = IF has_pyroDaemon(@, a)
                                              THEN unregister(@, a) ELSE @,
                              !.closeDone = @ \cup {a}],
             raised |-> FALSE, freed |-> free]

\* TrackedResource.close, with `out` the outcome of the device-free call.
close(s, a, out) ==
    LET h == s.obj[a]
        free == isTimeTaggerBase(h)
        raised == free /\ out = "Error"
        s1 == [s EXCEPT !.freeCalls =
                  IF free THEN [@ EXCEPT ![h] = @ + 1] ELSE @,
                  !.obj = [@ EXCEPT ![a] = None],
                  !.closeInvoked = @ \cup {a},
                  !.reclosed = IF a \in s.closeDone THEN @ \cup {a} ELSE @]
    IN IF raised
       THEN [s |-> s1, raised |-> TRUE, freed |-> free]
       ELSE [s |-> [s1 EXCEPT !.tracked = untrack_resource(@, a),
                              !.objectsById = IF has_pyroDaemon(@, a)
                                              THEN unregister(@, a) ELSE @,
                              !.closeDone = @ \cup {a}],
             raised |-> FALSE, freed |-> free]


\* ------------------------------------------------------------------ startup
\* The native library module TT: its members by name.  A member is a
\* function or a class; a class has its ancestry among the marker classes
\* (bases), the name of its immediate ancestor (mro1), the attributes
\* inspect.classify_class_attrs lists (attrs) and, in order, its (label,
\* value) pairs: the members of an enumeration, the class attributes of a
\* legacy enumeration class.
Member(isfunction, bases, mro1, attrs, values) ==
    [isfunction |-> isfunction, bases |-> bases, mro1 |-> mro1,
     attrs |-> attrs, values |-> values]
Function == Member(TRUE, {}, "", {}, <<>>)

\* inspect.Attribute: name and kind
Attr(name, k) == [name |-> name, kind |-> k]

\* The marker classes issubclass is asked about.
BaseKinds == {"IteratorBase", "TimeTaggerBase", "SynchronizedMeasurements", "Enum"}

EXCLUDED_LIBRARY_MEMBERS ==
    {"TimeTaggerBase", "IteratorBase", "Iterator", "FlimAbstract",
     "TimeTaggerVirtual", "createTimeTaggerVirtual",
     "CustomMeasurement", "CustomMeasurementBase",
     "CustomMeasurementBase_stop_all_custom_measurements",
     "TimeTagStream", "FileReader", "TimeTagStreamBuffer",
     "setLogger", "setCustomBitFileName", "hasTimeTaggerVirtualLicense",
     "setFrontend", "setLanguageInfo", "flashLicense"}
EXCLUDED_ITERATOR_ATTRIBUTES == {"waitUntilFinished"}
EXCLUDED_TAGGER_ATTRIBUTES == {"factoryAccess"}

\* The names compared against line 362 of server.py.
LegacyEnums == {"Resolution", "CoincidenceTimestamp", "ChannelEdge"}

\* str.startswith on the names of the library and of its classes.
startswith(name, prefix) ==
    \/ prefix = "_" /\ name \in {"_Worker", "_impl", "__init__", "__doc__"}
    \/ prefix = "this" /\ name \in {"thisown"}

\* 'create' + name and name + 'Data'
CreateName(name) ==
    CASE name = "Counter" -> "createCounter"
      [] name = "TimeTagger" -> "createTimeTagger"
      [] OTHER -> "create"
DataName(name) ==
    CASE name = "Counter" -> "CounterData"
      [] OTHER -> "Data"

\* inspect.getmembers(TT, ...): the members sorted by name.
MemberOrder ==
    <<"ChannelEdge", "Counter", "CounterData", "Resolution",
      "SynchronizedMeasurements", "TimeTagger", "TimeTaggerBase", "_Worker",
      "createCounter", "createTimeTagger", "freeTimeTagger">>

\* The member of a generated adapter class: its name and what it forwards
\* ("method", "property"), or "custom" for a member written in server.py.
AdapterMember(name, forwards) == [name |-> name, forwards |-> forwards]
Names(ms) == {m.name : m \in ms}

\* The outcome of generating a class: the error raised, or its members.
Made(ms) == [error |-> "", members |-> ms]
NotMade(e) == [error |-> e, members |-> {}]

\* make_class_attribute_proxy raises ValueError for any other kind.
ProxyKinds == {"method", "property"}

\* make_data_object_adaptor_class
make_data_object_adaptor_class(L, class_name) ==
    IF class_name \notin DOMAIN L THEN NotMade("AttributeError")
    ELSE LET taken == {a \in L[class_name].attrs :
                          ~startswith(a.name, "_") /\ ~startswith(a.name, "this")}
         IN IF \E a \in taken : a.kind \notin ProxyKinds
            THEN NotMade("ValueError")
            ELSE Made({AdapterMember(a.name, a.kind) : a \in taken}
                      \cup (IF \E a \in taken : a.name = "discard" THEN {}
                            ELSE {AdapterMember("discard", "custom")}))

\* The loop over the attributes that the Iterator, SynchronizedMeasurements
\* and Tagger adapter generators share: the attributes that are neither
\* already defined nor excluded nor underscored, if they are methods.
forwarded_methods(attrs, defined, excluded) ==
    {AdapterMember(a.name, a.kind) :
        a \in {x \in attrs : /\ x.name \notin defined
                             /\ x.name \notin excluded
                             /\ ~startswith(x.name, "_")
                             /\ x.kind = "method"}}

\* make_iterator_adapter_class
make_iterator_adapter_class(L, class_name) ==
    LET has == \E a \in L[class_name].attrs : a.name = "getDataObject"
        data == IF has THEN make_data_object_adaptor_class(L, DataName(class_name))
                ELSE Made({})
        custom == IF has THEN {AdapterMember("getDataObject", "custom")} ELSE {}
    IN IF data.error # "" THEN NotMade(data.error)
       ELSE Made(custom \cup
                 forwarded_methods(L[class_name].attrs,
                                   IF has THEN {"_DataObjectAdapter", "getDataObject"}
                                   ELSE {},
                                   EXCLUDED_ITERATOR_ATTRIBUTES))

\* make_timetagger_adapter_class
make_timetagger_adapter_class(L, class_name) ==
    IF class_name \notin DOMAIN L THEN NotMade("AttributeError")
    ELSE IF "TimeTaggerBase" \notin L[class_name].bases THEN NotMade("AssertionError")
    ELSE Made(forwarded_methods(L[class_name].attrs, {}, EXCLUDED_TAGGER_ATTRIBUTES))

\* make_synchronized_measurements_adaptor_class
GroupCustom == {AdapterMember("registerMeasurement", "custom"),
                AdapterMember("unregisterMeasurement", "custom"),
                AdapterMember("getTagger", "custom")}
make_synchronized_measurements_adaptor_class(L) ==
    IF "SynchronizedMeasurements" \notin DOMAIN L THEN NotMade("AttributeError")
    ELSE LET base == make_timetagger_adapter_class(L, "TimeTaggerBase") IN
         IF base.error # "" THEN NotMade(base.error)
         ELSE Made(GroupCustom \cup
                   forwarded_methods(L["SynchronizedMeasurements"].attrs,
                                     Names(GroupCustom), EXCLUDED_ITERATOR_ATTRIBUTES))

\* The library adapter class under construction: the error raised, the
\* class attributes by name with the role of each, the adapter classes
\* generated, each for a native class and of a kind, and the class attribute
\* _enums.
Attribute(name, role) == [name |-> name, role |-> role]
AdapterClass(cls, k, ms) == [cls |-> cls, kind |-> k, members |-> ms]
Definition(name, type, values) == [name |-> name, type |-> type, values |-> values]

NotBuilt == [built |-> FALSE, error |-> "", attributes |-> {}, adapters |-> {},
             enums |-> {}]

\* The attributes dict before the loop over the library's members.
NewLibraryAdapter ==
    [built |-> TRUE, error |-> "",
     attributes |-> {Attribute("enum_definitions", "custom"),
                     Attribute("freeTimeTagger", "custom")},
     adapters |-> {}, enums |-> {}]

\* attributes[name] = constructor, with the adapter class it constructs
WithConstructor(L, acc, name, cls, k, made) ==
    IF made.error # "" THEN [acc EXCEPT !.error = made.error]
    ELSE [acc EXCEPT !.attributes = @ \cup {Attribute(name, k)},
                     !.adapters = @ \cup {AdapterClass(cls, k, made.members)}
                                    \cup (IF k = IteratorKind /\ "getDataObject" \in Names(made.members)
                                          THEN {AdapterClass(DataName(cls), DataKind,
                                                   make_data_object_adaptor_class(L, DataName(cls)).members)}
                                          ELSE {})]

\* (atr.name, atr.object) of the attributes not starting with an underscore
public_values(values) == SelectSeq(values, LAMBDA v : ~startswith(v[1], "_"))

\* One turn of the loop of make_timetagger_library_adapter, lines 342-372.
classify(L, name, acc) ==
    LET Cls == L[name] IN
    IF name \in EXCLUDED_LIBRARY_MEMBERS \/ startswith(name, "_") THEN acc
    ELSE IF name \in Names(acc.attributes) THEN acc
    ELSE IF Cls.isfunction
    THEN [acc EXCEPT !.attributes = @ \cup {Attribute(name, "function")}]
    ELSE IF "IteratorBase" \in Cls.bases
    THEN WithConstructor(L, acc, name, name, IteratorKind,
                         make_iterator_adapter_class(L, name))
    ELSE IF "TimeTaggerBase" \in Cls.bases
    THEN IF CreateName(name) \notin DOMAIN L
         THEN [acc EXCEPT !.error = "AttributeError"]
         ELSE WithConstructor(L, acc, CreateName(name), name, TaggerKind,
                              make_timetagger_adapter_class(L, name))
    ELSE IF "SynchronizedMeasurements" \in Cls.bases
    THEN WithConstructor(L, acc, name, "SynchronizedMeasurements", GroupKind,
                         make_synchronized_measurements_adaptor_class(L))
    ELSE IF "Enum" \in Cls.bases
    THEN IF Len(Cls.values) > 0
         THEN [acc EXCEPT !.enums = @ \cup {Definition(name, Cls.mro1, Cls.values)}]
         ELSE acc
    ELSE IF name \in LegacyEnums
    THEN IF name \in Names(acc.enums) THEN acc
         ELSE IF Len(public_values(Cls.values)) > 0
         THEN [acc EXCEPT !.enums =
                  @ \cup {Definition(name, "IntEnum", public_values(Cls.values))}]
         ELSE acc
    ELSE acc

\* make_timetagger_library_adapter: the loop over the members in order; an
\* error ends it.
RECURSIVE make_members(_, _, _)
make_members(L, names, acc) ==
    IF names = <<>> \/ acc.error # "" THEN acc
    ELSE make_members(L, Tail(names),
                      IF Head(names) \in DOMAIN L
                      THEN classify(L, Head(names), acc) ELSE acc)

make_timetagger_library_adapter(L) == make_members(L, MemberOrder, NewLibraryAdapter)

\* The attributes drawn for a class of the library, and for a data class.
ClassAttrs ==
    {Attr("getData", "method"), Attr("getDataObject", "method"),
     Attr("waitUntilFinished", "method"), Attr("factoryAccess", "method"),
     Attr("_impl", "method"), Attr("capture", "property")}
DataAttrs ==
    {Attr("getIndex", "method"), Attr("size", "property"),
     Attr("thisown", "property"), Attr("VERSION", "data")}

\* The enumeration Resolution: an enum.Enum of two members, or the class of
\* an older library.
ResolutionEnum ==
    Member(FALSE, {"Enum"}, "IntEnum", {}, <<<<"Standard", 0>>, <<"HighResA", 1>>>>)
ResolutionLegacy ==
    Member(FALSE, {}, "object", {}, <<<<"HighResA", 1>>, <<"Standard", 0>>, <<"__doc__", 0>>>>)

\* A native library whose class Counter has the ancestry and attributes
\* given, whose class CounterData has the attributes given, and whose
\* Resolution is the member given.
Library(bases, attrs, dattrs, resolution) ==
    [n \in {"ChannelEdge", "Counter", "CounterData", "Resolution",
            "SynchronizedMeasurements", "TimeTagger", "TimeTaggerBase", "_Worker",
            "createCounter", "createTimeTagger", "freeTimeTagger"} |->
        CASE n = "ChannelEdge" -> Member(FALSE, {"Enum"}, "Enum", {}, <<>>)
          [] n = "Counter" -> Member(FALSE, bases, "IteratorBase", attrs, <<>>)
          [] n = "CounterData" -> Member(FALSE, {}, "object", dattrs, <<>>)
          [] n = "Resolution" -> resolution
          [] n = "SynchronizedMeasurements" ->
                Member(FALSE, {"SynchronizedMeasurements"}, "object",
                       {Attr("start", "method"), Attr("waitUntilFinished", "method"),
                        Attr("getTagger", "method"), Attr("registerMeasurement", "method"),
                        Attr("unregisterMeasurement", "method")}, <<>>)
          [] n = "TimeTagger" ->
                Member(FALSE, {"TimeTaggerBase"}, "TimeTaggerBase",
                       {Attr("getSerial", "method"), Attr("factoryAccess", "method"),
                        Attr("_impl", "method")}, <<>>)
          [] n = "TimeTaggerBase" ->
                Member(FALSE, {"TimeTaggerBase"}, "object",
                       {Attr("sync", "method"), Attr("_impl", "method")}, <<>>)
          [] n = "_Worker" -> Member(FALSE, {"IteratorBase"}, "IteratorBase", {}, <<>>)
          [] OTHER -> Function]

Libraries ==
    {Library(bases, attrs, dattrs, resolution) :
        bases \in SUBSET BaseKinds, attrs \in SUBSET ClassAttrs,
        dattrs \in SUBSET DataAttrs, resolution \in {ResolutionEnum, ResolutionLegacy}}

\* The library the server of Spec runs on.
TT == Library({"IteratorBase"},
              {Attr("getData", "method"), Attr("getDataObject", "method"),
               Attr("waitUntilFinished", "method"), Attr("_impl", "method")},
              {Attr("getIndex", "method"), Attr("size", "property"),
               Attr("thisown", "property")},
              ResolutionEnum)

\* enum_definitions: return self._enums
enum_definitions_none(r) == {}

enum_definitions_result(r) == r.enums

\* -------------------------------------------------------------- requests
\* The record of a served request: the member called, the connection, the
\* object addressed, the reference passed, whether it returned, whether a
\* native function was invoked, the adapter returned, the adapters swept.
Served(op, c, self, ref, ok, native, ret, swept) ==
    [op |-> op, conn |-> c, self |-> self, ref |-> ref, ok |-> ok,
     native |-> native, ret |-> ret, swept |-> swept, enums |-> {},
     swallowed |-> FALSE]

\* The daemon finds the object addressed by an incoming call and the method
\* on its class: an adapter of kind k registered under id t.
Dispatch(t, k) ==
    /\ t \in DOMAIN objectsById
    /\ objectsById[t] # rpc_obj
    /\ kind[objectsById[t]] = k

\* The request returns to the client; it leaves the payload converters, the
\* native library and the library adapter class alone.
Reply(op, c, self, ref, ok, native, ret, swept) ==
    /\ last' = Served(op, c, self, ref, ok, native, ret, swept)
    /\ UNCHANGED <<codec, lib, rpc, closing, pending>>

\* A request that returns enum definitions.
ReplyEnums(op, c, self, ok, definitions) ==
    /\ last' = [Served(op, c, self, NoId, ok, FALSE, None, {})
                   EXCEPT !.enums = definitions]
    /\ UNCHANGED <<codec, lib, rpc, closing, pending>>

UnchangedAdapters == UNCHANGED <<kind, obj, ttb, objectsById, tracked>>
UnchangedNative == UNCHANGED <<nkind, nparent, freeCalls, members>>
UnchangedHistory == UNCHANGED <<explicitFree, closeInvoked, closeDone, reclosed>>

\* A request that ends in an error before it changed anything.
Fails(op, self, ref, native) ==
    /\ Reply(op, NoConn, self, ref, FALSE, native, None, {})
    /\ UnchangedAdapters /\ UnchangedNative /\ UnchangedHistory
    /\ UNCHANGED <<clientRoot, native_of>>

NewAdapter_unregistered(c, k, h) ==
    LET a == Len(kind) + 1 IN
    /\ kind' = Append(kind, k)
    /\ obj' = Append(obj, h)
    /\ native_of' = Append(native_of, h)
    /\ tracked' = track_resource(tracked, c, a)
    /\ objectsById' = objectsById

\* TrackedResource.__init__ followed by daemon.register: adapter a of kind k
\* around native object h, created while serving connection c.
NewAdapter(c, k, h) ==
    LET a == Len(kind) + 1 IN
    /\ kind' = Append(kind, k)
    /\ obj' = Append(obj, h)
    /\ native_of' = Append(native_of, h)
    /\ tracked' = track_resource(tracked, c, a)
    /\ objectsById' = register(objectsById, a, k)

\* A native constructor or factory returns a new native object of class k.
NewNative(k, parent) ==
    /\ nkind' = Append(nkind, k)
    /\ nparent' = Append(nparent, parent)
    /\ freeCalls' = Append(freeCalls, 0)
    /\ members' = Append(members, {})

\* client.createProxy(host, port, _objectId) and TTProxy.__init__: the proxy
\* requests enum_definitions from the object addressed, then releases its
\* (new) connection.
createProxy(c, objectId) ==
    /\ tracked[c] = {}
    /\ LET found == objectId \in DOMAIN objectsById
                    /\ objectsById[objectId] = rpc_obj
       IN /\ IF found
             THEN ReplyEnums("createProxy", c, objectId, TRUE,
                             enum_definitions_result(rpc))
             ELSE Reply("createProxy", c, objectId, NoId, FALSE, FALSE, None, {})
          /\ clientRoot' = IF found THEN clientRoot \cup {objectId} ELSE clientRoot
    /\ UnchangedAdapters /\ UnchangedNative /\ UnchangedHistory
    /\ UNCHANGED native_of

\* enum_definitions of the library adapter
enum_definitions ==
    /\ RootObjectId \in clientRoot
    /\ ReplyEnums("enum_definitions", NoConn, RootObjectId, TRUE,
                  enum_definitions_result(rpc))
    /\ UnchangedAdapters /\ UnchangedNative /\ UnchangedHistory
    /\ UNCHANGED <<clientRoot, native_of>>

\* start_server: the library adapter class is made, and an instance of it
\* is registered unless making it raised.
start_server ==
    /\ ~rpc.built
    /\ rpc' = make_timetagger_library_adapter(lib)
    /\ objectsById' = IF rpc'.error = "" THEN (RootObjectId :> rpc_obj)
                      ELSE objectsById
    /\ last' = Served("start_server", NoConn, NoId, NoId, rpc'.error = "",
                      FALSE, None, {})
    /\ UNCHANGED <<kind, obj, ttb, tracked, clientRoot, native_of, codec, lib,
                   closing, pending>>
    /\ UnchangedNative /\ UnchangedHistory

\* make_tagger_constructor.constructor
createTimeTagger(c) ==
    /\ RootObjectId \in clientRoot
    /\ Len(kind) < MaxAdapters
    /\ NewNative(TaggerKind, None)
    /\ NewAdapter(c, TaggerKind, Len(nkind) + 1)
    /\ ttb' = Append(ttb, None)
    /\ Reply("createTimeTagger", c, RootObjectId, NoId, TRUE, TRUE,
                      Len(kind) + 1, {})
    /\ UnchangedHistory /\ UNCHANGED clientRoot

\* make_iterator_constructor.constructor (k the Iterator kind) and
\* make_synchronized_measurement_constructor.constructor (k the group kind)
OverTagger(op, k, c, ref) ==
    /\ RootObjectId \in clientRoot
    /\ LET tagger_adapter == proxy2object(objectsById, ref) IN
       IF ~has_obj(tagger_adapter)
       THEN Fails(op, RootObjectId, ref, FALSE)
       ELSE IF ~NativeTaggerOk(obj[tagger_adapter])
       THEN Fails(op, RootObjectId, ref, TRUE)
       ELSE /\ Len(kind) < MaxAdapters
            /\ NewNative(k, obj[tagger_adapter])
            /\ NewAdapter(c, k, Len(nkind) + 1)
            /\ ttb' = Append(ttb, None)
            /\ Reply(op, c, RootObjectId, ref, TRUE, TRUE,
                              Len(kind) + 1, {})
            /\ UnchangedHistory /\ UNCHANGED clientRoot

Iterator(c, ref) == OverTagger("Iterator", IteratorKind, c, ref)

SynchronizedMeasurements(c, ref) ==
    OverTagger("SynchronizedMeasurements", GroupKind, c, ref)


\* registerMeasurement / unregisterMeasurement of the group adapter:
\* self._obj.<op>(iterator_adaptor._obj)
Measurement(op, t, ref) ==
    IF ~Dispatch(t, GroupKind)
    THEN Fails(op, t, ref, FALSE)
    ELSE LET g == objectsById[t]
             iterator_adaptor == proxy2object(objectsById, ref)
         IN IF ~forward_ok(obj[g]) \/ ~has_obj(iterator_adaptor)
            THEN Fails(op, t, ref, FALSE)
            ELSE IF ~NativeIteratorOk(obj[iterator_adaptor])
            THEN Fails(op, t, ref, TRUE)
            ELSE /\ members' = [members EXCEPT ![obj[g]] =
                        IF op = "registerMeasurement"
                        THEN @ \cup {obj[iterator_adaptor]}
                        ELSE @ \ {obj[iterator_adaptor]}]
                 /\ Reply(op, NoConn, t, ref, TRUE, TRUE, None, {})
                 /\ UnchangedAdapters /\ UnchangedHistory
                 /\ UNCHANGED <<nkind, nparent, freeCalls, clientRoot, native_of>>

registerMeasurement(t, ref) == Measurement("registerMeasurement", t, ref)

unregisterMeasurement(t, ref) == Measurement("unregisterMeasurement", t, ref)

\* hasattr(self, '_ttb_adaptor')
has_ttb_adaptor_never(g) == FALSE

has_ttb_adaptor(g) == ttb[g] # None

\* The native group's getTagger(): its tagger view, the same native object
\* on every call.
HasNativeTagger(h) == \E x \in Natives : nkind[x] = TaggerKind /\ nparent[x] = h
NativeTagger(h) == CHOOSE x \in Natives : nkind[x] = TaggerKind /\ nparent[x] = h

\* getTagger of the group adapter, while there are fewer than `room` adapters
getTagger(c, t, room) ==
    IF ~Dispatch(t, GroupKind)
    THEN Fails("getTagger", t, NoId, FALSE)
    ELSE LET g == objectsById[t] IN
         IF has_ttb_adaptor(g)
         THEN /\ Reply("getTagger", c, t, NoId, TRUE, FALSE, ttb[g], {})
              /\ UnchangedAdapters /\ UnchangedNative /\ UnchangedHistory
              /\ UNCHANGED <<clientRoot, native_of>>
         ELSE IF ~forward_ok(obj[g])
         THEN Fails("getTagger", t, NoId, FALSE)
         ELSE /\ Len(kind) < room
              /\ IF HasNativeTagger(obj[g])
                 THEN /\ NewAdapter(c, TaggerKind, NativeTagger(obj[g]))
                      /\ UnchangedNative
                 ELSE /\ NewAdapter(c, TaggerKind, Len(nkind) + 1)
                      /\ NewNative(TaggerKind, obj[g])
              /\ ttb' = [Append(ttb, None) EXCEPT ![g] = Len(kind) + 1]
              /\ Reply("getTagger", c, t, NoId, TRUE, TRUE,
                                Len(kind) + 1, {})
              /\ UnchangedHistory /\ UNCHANGED clientRoot

\* getTagger while other connections are served: line 201 of server.py, the
\* test hasattr(self, '_ttb_adaptor').  A thread that finds the attribute
\* returns it; a thread that does not goes on to line 202.
getTagger_enter(c, t) ==
    IF ~Dispatch(t, GroupKind)
    THEN Fails("getTagger", t, NoId, FALSE)
    ELSE LET g == objectsById[t] IN
         IF has_ttb_adaptor(g)
         THEN /\ Reply("getTagger", c, t, NoId, TRUE, FALSE, ttb[g], {})
              /\ UnchangedAdapters /\ UnchangedNative /\ UnchangedHistory
              /\ UNCHANGED <<clientRoot, native_of>>
         ELSE /\ pending' = pending \cup {<<c, g>>}
              /\ last' = Served("getTagger_enter", c, t, NoId, TRUE, FALSE, None, {})
              /\ UnchangedAdapters /\ UnchangedNative /\ UnchangedHistory
              /\ UNCHANGED <<clientRoot, native_of, codec, lib, rpc, closing>>

\* lines 202-205 of server.py: the native getTagger(), the construction of
\* the Tagger adapter, the assignment of self._ttb_adaptor, register and
\* return, while there are fewer than `room` adapters.
getTagger_exit(c, g, room) ==
    /\ <<c, g>> \in pending
    /\ pending' = pending \ {<<c, g>>}
    /\ UNCHANGED <<codec, lib, rpc, closing, clientRoot>>
    /\ UnchangedHistory
    /\ IF ~forward_ok(obj[g])
       THEN /\ last' = Served("getTagger", NoConn, IdOf(g), NoId, FALSE, FALSE,
                              None, {})
            /\ UnchangedAdapters /\ UnchangedNative
            /\ UNCHANGED native_of
       ELSE /\ Len(kind) < room
            /\ IF HasNativeTagger(obj[g])
               THEN /\ NewAdapter(c, TaggerKind, NativeTagger(obj[g]))
                    /\ UnchangedNative
               ELSE /\ NewAdapter(c, TaggerKind, Len(nkind) + 1)
                    /\ NewNative(TaggerKind, obj[g])
            /\ ttb' = [Append(ttb, None) EXCEPT ![g] = Len(kind) + 1]
            /\ last' = Served("getTagger", c, IdOf(g), NoId, TRUE, TRUE,
                              Len(kind) + 1, {})

\* getDataObject of an Iterator adapter
getDataObject(c, t) ==
    IF ~Dispatch(t, IteratorKind)
    THEN Fails("getDataObject", t, NoId, FALSE)
    ELSE LET i == objectsById[t] IN
         IF ~forward_ok(obj[i])
         THEN Fails("getDataObject", t, NoId, FALSE)
         ELSE /\ Len(kind) < MaxAdapters
              /\ NewNative(DataKind, obj[i])
              /\ NewAdapter(c, DataKind, Len(nkind) + 1)
              /\ ttb' = Append(ttb, None)
              /\ Reply("getDataObject", c, t, NoId, TRUE, TRUE,
                                Len(kind) + 1, {})
              /\ UnchangedHistory /\ UNCHANGED clientRoot

\* The outcomes of the device-free call that close of adapter a can meet:
\* the call is made on a tagger only.
CloseOutcomes(a) == IF isTimeTaggerBase(obj[a]) THEN FreeOutcomes ELSE {"ok"}

\* The state after close, from the record close returns.
Closed(s) ==
    /\ obj' = s.obj
    /\ objectsById' = s.objectsById
    /\ tracked' = s.tracked
    /\ freeCalls' = s.freeCalls
    /\ closeInvoked' = s.closeInvoked
    /\ closeDone' = s.closeDone
    /\ reclosed' = s.reclosed

\* discard of a DataObject adapter: self.close()
discard(t) ==
    IF ~Dispatch(t, DataKind)
    THEN Fails("discard", t, NoId, FALSE)
    ELSE \E out \in CloseOutcomes(objectsById[t]) :
         LET r == close(Cur, objectsById[t], out) IN
         /\ Closed(r.s)
         /\ Reply("discard", NoConn, t, NoId, ~r.raised, r.freed, None, {})
         /\ UNCHANGED <<kind, ttb, nkind, nparent, members, clientRoot,
                        native_of, explicitFree>>

\* A member generated by make_class_attribute_proxy: a forwarded method of
\* any adapter, or a forwarded property of a DataObject adapter.
forwarded(t, member) ==
    IF ~(\E k \in {TaggerKind, IteratorKind, GroupKind, DataKind} : Dispatch(t, k))
       \/ (member = "property" /\ ~Dispatch(t, DataKind))
    THEN Fails(member, t, NoId, FALSE)
    ELSE IF ~forward_ok(obj[objectsById[t]])
    THEN Fails(member, t, NoId, FALSE)
    ELSE /\ Reply(member, NoConn, t, NoId, TRUE, TRUE, None, {})
         /\ UnchangedAdapters /\ UnchangedNative /\ UnchangedHistory
         /\ UNCHANGED <<clientRoot, native_of>>

\* freeTimeTagger of the library adapter: TT.freeTimeTagger(tagger_adapter._obj)
freeTimeTagger(ref) ==
    /\ RootObjectId \in clientRoot
    /\ LET tagger_adapter == proxy2object(objectsById, ref) IN
       IF ~has_obj(tagger_adapter)
       THEN Fails("freeTimeTagger", RootObjectId, ref, FALSE)
       ELSE IF ~isTimeTaggerBase(obj[tagger_adapter])
       THEN Fails("freeTimeTagger", RootObjectId, ref, TRUE)
       ELSE \E out \in FreeOutcomes :
            /\ freeCalls[obj[tagger_adapter]] < MaxFree
            /\ freeCalls' = [freeCalls EXCEPT ![obj[tagger_adapter]] = @ + 1]
            /\ Reply("freeTimeTagger", NoConn, RootObjectId, ref,
                              out = "ok", TRUE, None, {})
            /\ explicitFree' = explicitFree \cup {obj[tagger_adapter]}
            /\ UnchangedAdapters
            /\ UNCHANGED <<nkind, nparent, members, clientRoot, native_of,
                           closeInvoked, closeDone, reclosed>>

\* The orders in which a set can be visited.
RECURSIVE Orders(_)
Orders(S) ==
    IF S = {} THEN {<<>>}
    ELSE UNION {{<<x>> \o p : p \in Orders(S \ {x})} : x \in S}

\* The sweep over a connection's resources: close is attempted on each, and
\* an error of one close does not end the sweep.
RECURSIVE sweep(_, _, _)
sweep(s, order, outs) ==
    IF order = <<>> THEN s
    ELSE LET a == Head(order)
             out == IF a \in DOMAIN outs THEN outs[a] ELSE "ok"
         IN sweep(close(s, a, out).s, Tail(order), outs)

\* on_connection_closed: connection c is released or lost; every resource
\* tracked for it is closed and the set is cleared.
on_connection_closed(c) ==
    \E order \in Orders(tracked[c]) :
    \E outs \in [{a \in tracked[c] : isTimeTaggerBase(obj[a])} -> FreeOutcomes] :
       LET s == sweep(Cur, order, outs) IN
       /\ Closed([s EXCEPT !.tracked = [@ EXCEPT ![c] = {}]])
       /\ Reply("teardown", c, NoId, NoId, TRUE,
                         s.freeCalls # freeCalls, None, tracked[c])
       /\ UNCHANGED <<kind, ttb, nkind, nparent, members, clientRoot,
                      native_of, explicitFree>>

\* a direct call of TrackedResource.close on adapter a; the record notes
\* whether the device-free call raised an AttributeError.
close_call(a) ==
    \E out \in CloseOutcomes(a) :
       LET r == close(Cur, a, out) IN
       /\ Closed(r.s)
       /\ last' = [Served("close", NoConn, IdOf(a), NoId, ~r.raised, r.freed, None, {})
                      EXCEPT !.swallowed = r.freed /\ out = "AttributeError"]
       /\ UNCHANGED <<codec, lib, rpc, closing, pending>>
       /\ UNCHANGED <<kind, ttb, nkind, nparent, members, clientRoot,
                      native_of, explicitFree>>

\* close while other connections are served: lines 51-58 of server.py, the
\* device-free call and self._obj = None.  The thread goes on to line 59
\* unless the device-free call raised.
close_enter(a) ==
    /\ (\E c \in Conns : a \in tracked[c]) /\ a \notin closing
    /\ \E out \in CloseOutcomes(a) :
          LET free == isTimeTaggerBase(obj[a])
              raised == free /\ out = "Error"
          IN /\ freeCalls' = IF free THEN [freeCalls EXCEPT ![obj[a]] = @ + 1]
                             ELSE freeCalls
             /\ obj' = [obj EXCEPT ![a] = None]
             /\ closeInvoked' = closeInvoked \cup {a}
             /\ closing' = IF raised THEN closing ELSE closing \cup {a}
             /\ last' = Served("close_enter", NoConn, IdOf(a), NoId, ~raised, free,
                               None, {})
    /\ UNCHANGED <<kind, ttb, objectsById, tracked, nkind, nparent, members,
                   clientRoot, native_of, explicitFree, closeDone, reclosed,
                   codec, lib, rpc, pending>>

\* lines 59-61 of server.py: untrack_resource and unregister
close_exit(a) ==
    /\ a \in closing
    /\ tracked' = untrack_resource(tracked, a)
    /\ objectsById' = IF has_pyroDaemon(objectsById, a)
                      THEN unregister(objectsById, a) ELSE objectsById
    /\ closeDone' = closeDone \cup {a}
    /\ closing' = closing \ {a}
    /\ last' = Served("close_exit", NoConn, IdOf(a), NoId, TRUE, FALSE, None, {})
    /\ UNCHANGED <<kind, obj, ttb, nkind, nparent, freeCalls, members, clientRoot,
                   native_of, explicitFree, closeInvoked, reclosed, codec, lib, rpc,
                   pending>>

\* ------------------------------------------------------------ payload codec
\* An array value: its dtype (byte order, kind, item size in bytes), its
\* shape and its elements in C order.
Dtype(order, k, size) == [order |-> order, kind |-> k, size |-> size]
Dtypes == {Dtype("|", "u", 1), Dtype("<", "u", 2), Dtype(">", "u", 2),
           Dtype("<", "i", 2)}

Array(dt, shape, data) == [descr |-> dt, shape |-> shape, data |-> data]
NoArray == Array(Dtype("", "", 0), <<>>, <<>>)

Shapes == UNION {[1..r -> 0..MaxDim] : r \in 0..MaxRank}

RECURSIVE Size(_)
Size(shape) == IF shape = <<>> THEN 1 ELSE Head(shape) * Size(Tail(shape))

\* 2^(8 * n), the number of values of an n-byte item
RECURSIVE Radix(_)
Radix(n) == IF n = 0 THEN 1 ELSE 256 * Radix(n - 1)

\* The value an item of dtype dt holds for the bit pattern raw.
ItemValue(dt, raw) ==
    IF dt.kind = "i" /\ 2 * raw >= Radix(dt.size) THEN raw - Radix(dt.size) ELSE raw

\* Element patterns: the i-th element of fill k.
Patterns == <<0, 1, 255, 256, 65535>>
Fill(dt, n, k) ==
    [i \in 1..n |-> ItemValue(dt, Patterns[((i + k) % Len(Patterns)) + 1] % Radix(dt.size))]

Arrays == {Array(dt, shape, Fill(dt, Size(shape), k)) :
              dt \in Dtypes, shape \in Shapes, k \in 0..(Len(Patterns) - 1)}

\* The characters of a dtype string as bytes.
Ord(ch) == CASE ch = "<" -> 60 [] ch = ">" -> 62 [] ch = "|" -> 124
             [] ch = "u" -> 117 [] ch = "i" -> 105 [] OTHER -> 0
Chr(b) == CASE b = 60 -> "<" [] b = 62 -> ">" [] b = 124 -> "|"
            [] b = 117 -> "u" [] b = 105 -> "i" [] OTHER -> ""

\* The first byte of the NPY magic string.
NpyMagic == 147

\* The bytes of one item, in the byte order of its dtype.
tobytes_le(dt, v) ==
    LET raw == v % Radix(dt.size) IN
    IF dt.size = 1 THEN <<raw>> ELSE <<raw % 256, raw \div 256>>

tobytes(dt, v) ==
    LET raw == v % Radix(dt.size) IN
    IF dt.size = 1 THEN <<raw>>
    ELSE IF dt.order = ">" THEN <<raw \div 256, raw % 256>>
    ELSE <<raw % 256, raw \div 256>>

frombytes(dt, bs) ==
    ItemValue(dt, IF dt.size = 1 THEN bs[1]
                  ELSE IF dt.order = ">" THEN bs[1] * 256 + bs[2]
                  ELSE bs[2] * 256 + bs[1])

RECURSIVE Flatten(_)
Flatten(ss) == IF ss = <<>> THEN <<>> ELSE Head(ss) \o Flatten(Tail(ss))

\* numpy.save(output, arr, allow_pickle=False): the header (magic, descr,
\* fortran_order, shape) followed by the items in C order.
numpy_save(arr) ==
    <<NpyMagic, Ord(arr.descr.order), Ord(arr.descr.kind), arr.descr.size, 0,
      Len(arr.shape)>>
    \o arr.shape
    \o Flatten([i \in 1..Len(arr.data) |-> tobytes(arr.descr, arr.data[i])])

\* The outcome of a load: an array, or the error raised.
Loaded(arr) == [error |-> "", arr |-> arr]
Raised(e) == [error |-> e, arr |-> NoArray]

\* numpy.load(buffer, allow_pickle=False)
numpy_load(bs) ==
    IF Len(bs) < 6 \/ bs[1] # NpyMagic \/ bs[5] # 0 \/ Len(bs) < 6 + bs[6]
    THEN Raised("ValueError")
    ELSE LET dt == Dtype(Chr(bs[2]), Chr(bs[3]), bs[4])
             shape == SubSeq(bs, 7, 6 + bs[6])
             raw == SubSeq(bs, 7 + bs[6], Len(bs))
         IN IF dt \notin Dtypes \/ Len(raw) # Size(shape) * dt.size
            THEN Raised("ValueError")
            ELSE Loaded(Array(dt, shape,
                     [i \in 1..Size(shape) |->
                         frombytes(dt, SubSeq(raw, (i - 1) * dt.size + 1, i * dt.size))]))

\* The padding character of base64, after the 64 characters of its alphabet.
Pad == 64

\* base64.b64encode(...).decode('ASCII'): characters as alphabet positions.
RECURSIVE b64encode(_)
b64encode(bs) ==
    IF bs = <<>> THEN <<>>
    ELSE IF Len(bs) = 1
    THEN <<bs[1] \div 4, (bs[1] % 4) * 16, Pad, Pad>>
    ELSE IF Len(bs) = 2
    THEN <<bs[1] \div 4, (bs[1] % 4) * 16 + bs[2] \div 16, (bs[2] % 16) * 4, Pad>>
    ELSE <<bs[1] \div 4, (bs[1] % 4) * 16 + bs[2] \div 16,
           (bs[2] % 16) * 4 + bs[3] \div 64, bs[3] % 64>>
         \o b64encode(SubSeq(bs, 4, Len(bs)))

\* base64.b64decode(data.encode('ASCII')); a malformed text decodes to nothing.
RECURSIVE b64decode(_)
b64decode(cs) ==
    IF Len(cs) < 4 THEN <<>>
    ELSE LET b1 == cs[1] * 4 + cs[2] \div 16
             b2 == (cs[2] % 16) * 16 + cs[3] \div 4
             b3 == (cs[3] % 4) * 64 + cs[4]
         IN IF cs[3] = Pad THEN <<b1>>
            ELSE IF cs[4] = Pad THEN <<b1, (cs[2] % 16) * 16 + cs[3] \div 4>>
            ELSE <<b1, b2, b3>> \o b64decode(SubSeq(cs, 5, Len(cs)))

\* The class tag of an array payload.
NdarrayTag == "numpy.ndarray"
ClassTags == {NdarrayTag, "numpy.matrix"}

\* helper.save_numpy_array
save_numpy_array(arr) ==
    [data |-> b64encode(numpy_save(arr)), class |-> NdarrayTag]

\* helper.load_numpy_array
load_numpy_array(classname, data) ==
    IF classname # NdarrayTag THEN Raised("AssertionError")
    ELSE numpy_load(b64decode(data.data))

\* The payload in flight: the array handed to the encoder, the payload it
\* produced, the class name handed to the decoder and the decoder's outcome.
Payload(phase, arr, payload, classname, out) ==
    [phase |-> phase, arr |-> arr, payload |-> payload,
     classname |-> classname, out |-> out]
NoData == [data |-> <<>>, class |-> ""]
NoPayload == Payload("idle", NoArray, NoData, "", Raised(""))

UnchangedServer ==
    UNCHANGED <<kind, obj, ttb, objectsById, tracked, nkind, nparent, freeCalls,
                members, clientRoot, native_of, explicitFree, closeInvoked,
                closeDone, reclosed, last>>

\* An array value is to cross the boundary.
send_array(arr) ==
    /\ codec.phase \in {"idle", "loaded", "rejected"}
    /\ codec' = Payload("array", arr, NoData, "", Raised(""))
    /\ UnchangedServer /\ UNCHANGED <<lib, rpc, closing, pending>>

\* The serializer converts the array with save_numpy_array.
encode_array ==
    /\ codec.phase = "array"
    /\ codec' = [codec EXCEPT !.phase = "payload",
                              !.payload = save_numpy_array(codec.arr)]
    /\ UnchangedServer /\ UNCHANGED <<lib, rpc, closing, pending>>

\* The deserializer converts the payload with load_numpy_array.
decode_payload(classname) ==
    /\ codec.phase = "payload"
    /\ LET out == load_numpy_array(classname, codec.payload) IN
       codec' = [codec EXCEPT !.phase = IF out.error = "" THEN "loaded" ELSE "rejected",
                              !.classname = classname,
                              !.out = out]
    /\ UnchangedServer /\ UNCHANGED <<lib, rpc, closing, pending>>

\* ---------------------------------------------------------- specification
InitServer ==
    /\ kind = <<>> /\ obj = <<>> /\ ttb = <<>>
    /\ objectsById = (RootObjectId :> rpc_obj)
    /\ tracked = [c \in Conns |-> {}]
    /\ nkind = <<>> /\ nparent = <<>> /\ freeCalls = <<>> /\ members = <<>>
    /\ clientRoot = {}
    /\ native_of = <<>> /\ explicitFree = {}
    /\ closeInvoked = {} /\ closeDone = {} /\ reclosed = {}
    /\ last = Served("start_server", 0, NoId, NoId, TRUE, FALSE, None, {})

Init ==
    /\ InitServer
    /\ codec = NoPayload
    /\ lib = TT
    /\ rpc = make_timetagger_library_adapter(TT)
    /\ closing = {}
    /\ pending = {}

\* The server process before start_server, on any of the libraries.
InitStartup ==
    /\ kind = <<>> /\ obj = <<>> /\ ttb = <<>>
    /\ objectsById = [id \in {} |-> rpc_obj]
    /\ tracked = [c \in Conns |-> {}]
    /\ nkind = <<>> /\ nparent = <<>> /\ freeCalls = <<>> /\ members = <<>>
    /\ clientRoot = {}
    /\ native_of = <<>> /\ explicitFree = {}
    /\ closeInvoked = {} /\ closeDone = {} /\ reclosed = {}
    /\ last = Served("import", 0, NoId, NoId, TRUE, FALSE, None, {})
    /\ codec = NoPayload
    /\ lib \in Libraries
    /\ rpc = NotBuilt
    /\ closing = {}
    /\ pending = {}

Next ==
    \/ \E c \in Conns :
          \/ \E objectId \in {DefaultObjectId, RootObjectId} : createProxy(c, objectId)
          \/ createTimeTagger(c)
          \/ \E ref \in RefsOf(TaggerKind) : Iterator(c, ref)
          \/ \E ref \in RefsOf(TaggerKind) : SynchronizedMeasurements(c, ref)
          \/ \E t \in ProxiesOf(GroupKind) : getTagger(c, t, MaxAdapters)
          \/ \E t \in ProxiesOf(IteratorKind) : getDataObject(c, t)
          \/ on_connection_closed(c)
    \/ \E t \in ProxiesOf(GroupKind), ref \in RefsOf(IteratorKind) :
          registerMeasurement(t, ref)
    \/ \E t \in ProxiesOf(GroupKind), ref \in RefsOf(IteratorKind) :
          unregisterMeasurement(t, ref)
    \/ \E t \in ProxiesOf(DataKind) : discard(t)
    \/ \E t \in Proxies : forwarded(t, "method")
    \/ \E t \in ProxiesOf(DataKind) : forwarded(t, "property")
    \/ \E ref \in RefsOf(TaggerKind) : freeTimeTagger(ref)
    \/ enum_definitions

Spec == Init /\ [][Next]_vars

\* The requests on a group and on its tagger view.
NextGroup ==
    \/ \E c \in Conns :
          \/ createProxy(c, RootObjectId)
          \/ createTimeTagger(c)
          \/ \E ref \in RefsOf(TaggerKind) : SynchronizedMeasurements(c, ref)
          \/ \E ref \in RefsOf(TaggerKind) : Iterator(c, ref)
          \/ \E t \in ProxiesOf(GroupKind) :
                getTagger(c, t, MaxAdapters + MaxViews)
          \/ on_connection_closed(c)
    \/ \E t \in Proxies : forwarded(t, "method")

SpecGroup == Init /\ [][NextGroup]_vars

\* The requests that create and close adapters, and direct calls of close
\* on the adapters.
NextClose ==
    \/ \E c \in Conns :
          \/ createProxy(c, RootObjectId)
          \/ createTimeTagger(c)
          \/ \E ref \in RefsOf(TaggerKind) : Iterator(c, ref)
          \/ \E t \in ProxiesOf(IteratorKind) : getDataObject(c, t)
          \/ on_connection_closed(c)
    \/ \E t \in ProxiesOf(DataKind) : discard(t)
    \/ \E a \in Adapters : close_call(a)

SpecClose == Init /\ [][NextClose]_vars

\* Requests served while a close is under way in another thread.
NextRace ==
    \/ \E c \in Conns :
          \/ createProxy(c, RootObjectId)
          \/ createTimeTagger(c)
          \/ \E ref \in RefsOf(TaggerKind) : Iterator(c, ref)
          \/ \E ref \in RefsOf(TaggerKind) : SynchronizedMeasurements(c, ref)
    \/ \E t \in ProxiesOf(GroupKind), ref \in RefsOf(IteratorKind) :
          registerMeasurement(t, ref)
    \/ \E t \in ProxiesOf(GroupKind), ref \in RefsOf(IteratorKind) :
          unregisterMeasurement(t, ref)
    \/ \E t \in Proxies : forwarded(t, "method")
    \/ \E a \in Adapters : close_enter(a)
    \/ \E a \in Adapters : close_exit(a)

SpecRace == Init /\ [][NextRace]_vars

\* getTagger requests served concurrently.  A connection's thread serves one
\* request at a time; the connection is torn down between requests.
Busy(c) == \E g \in Adapters : <<c, g>> \in pending

NextViews ==
    \/ \E c \in Conns :
          \/ ~Busy(c) /\ createProxy(c, RootObjectId)
          \/ ~Busy(c) /\ createTimeTagger(c)
          \/ ~Busy(c) /\ \E ref \in RefsOf(TaggerKind) :
                SynchronizedMeasurements(c, ref)
          \/ ~Busy(c) /\ \E t \in ProxiesOf(GroupKind) : getTagger_enter(c, t)
          \/ ~Busy(c) /\ on_connection_closed(c)
    \/ \E c \in Conns, g \in Adapters :
          getTagger_exit(c, g, MaxAdapters + MaxViews)

SpecViews == Init /\ [][NextViews]_vars

\* The start of the server on a native library, and the requests for the
\* enum definitions.
NextStartup ==
    \/ start_server
    \/ \E c \in Conns : createProxy(c, RootObjectId)
    \/ enum_definitions

SpecStartup == InitStartup /\ [][NextStartup]_vars

\* Array values crossing the boundary.
NextCodec ==
    \/ \E arr \in Arrays : send_array(arr)
    \/ encode_array
    \/ \E classname \in ClassTags : decode_payload(classname)

SpecCodec == Init /\ [][NextCodec]_vars

\* ================================================================ claims
RefOps == {"Iterator", "SynchronizedMeasurements", "registerMeasurement",
           "unregisterMeasurement", "freeTimeTagger"}

\* The adapter an issued identity belongs to.
AdapterOf(id) == id[2]

Registered(a) == IdOf(a) \in DOMAIN objectsById /\ objectsById[IdOf(a)] = a
Tracked(a) == \E c \in Conns : a \in tracked[c]
Stale(a) == proxy2object(objectsById, IdOf(a)) = None

\* C1: once close(A) has run to its end, resolving A's identity through
\* Daemon.proxy2object never returns A again.
C1_ClosedNeverResolves ==
    \A a \in closeDone : proxy2object(objectsById, IdOf(a)) # a

\* A constructor was handed the identity of a closed adapter and failed.
C1_Witness ==
    /\ last.op = "Iterator" /\ ~last.ok
    /\ last.ref \in Proxies /\ AdapterOf(last.ref) \in closeDone

\* C2: after the teardown of a connection, none of the adapters that were in
\* its resource set resolves or holds a native handle, and the set is empty.
C2_TeardownClosesAll ==
    last.op = "teardown" =>
        /\ \A a \in last.swept : Stale(a) /\ obj[a] = None
        /\ tracked[last.conn] = {}

\* C3: after freeTimeTagger(T) has returned, T has no native handle, is in
\* no resource set and T's identity does not resolve.
C3_FreeTimeTaggerCloses ==
    (last.op = "freeTimeTagger" /\ last.ok) =>
        LET T == AdapterOf(last.ref) IN
        obj[T] = None /\ ~Tracked(T) /\ Stale(T)

\* C4: a connection that made a Tagger T, an Iterator I over T and a group G
\* over T, registered I into G and is torn down with no explicit cleanup
\* leaves T, I and G stale, T's native object freed by exactly one
\* device-free call and the native objects of I and G never device-freed.
C4_Scenario(T, I, G) ==
    /\ kind[T] = TaggerKind /\ kind[I] = IteratorKind /\ kind[G] = GroupKind
    /\ nparent[native_of[I]] = native_of[T]
    /\ nparent[native_of[G]] = native_of[T]
    /\ native_of[I] \in members[native_of[G]]
    /\ native_of[T] \notin explicitFree

C4_TeardownReleasesOnce ==
    last.op = "teardown" =>
        \A T, I, G \in last.swept :
            C4_Scenario(T, I, G) =>
                /\ Stale(T) /\ Stale(I) /\ Stale(G)
                /\ obj[T] = None /\ obj[I] = None /\ obj[G] = None
                /\ freeCalls[native_of[T]] = 1
                /\ freeCalls[native_of[I]] = 0
                /\ freeCalls[native_of[G]] = 0

\* C5: a request that passes a reference absent from the registry ends in an
\* error, invokes nothing native, creates no adapter and changes neither the
\* registry nor any resource set.
C5_Step ==
    (last'.op \in RefOps /\ last'.ref \notin DOMAIN objectsById) =>
        /\ ~last'.ok /\ ~last'.native /\ last'.ret = None
        /\ kind' = kind /\ obj' = obj
        /\ objectsById' = objectsById /\ tracked' = tracked
        /\ nkind' = nkind /\ freeCalls' = freeCalls /\ members' = members

C5_AbsentReferenceFails == [][C5_Step]_vars

\* A request was handed a fabricated identity.
C5_Witness ==
    /\ last.op \in RefOps /\ ~last.ok /\ ~last.native
    /\ last.ref = FabricatedId

\* C6: a close of an adapter whose close has already run to its end raises
\* nothing, makes no native release call and leaves the registry, the
\* resource sets and the handles as they were.
C6_Step ==
    (last'.op = "close" /\ AdapterOf(last'.self) \in closeDone) =>
        /\ last'.ok /\ ~last'.native
        /\ obj' = obj /\ objectsById' = objectsById /\ tracked' = tracked
        /\ freeCalls' = freeCalls
        /\ obj'[AdapterOf(last'.self)] = None

C6_CloseIdempotent == [][C6_Step]_vars

\* A close was called on an adapter that had been closed before.
C6_Witness ==
    /\ last.op = "close" /\ AdapterOf(last.self) \in reclosed
    /\ kind[AdapterOf(last.self)] = TaggerKind

\* C7: a forwarded method or property called on a closed adapter ends in an
\* error and reaches no native object.
C7_ClosedAdapterCallFails ==
    (last.op \in {"method", "property"} /\ AdapterOf(last.self) \in closeInvoked)
        => (~last.ok /\ ~last.native)

\* A forwarded member was called on a closed adapter, and on one that is
\* still registered.
C7_Witness ==
    /\ last.op \in {"method", "property"}
    /\ AdapterOf(last.self) \in closeInvoked
    /\ Registered(AdapterOf(last.self))

\* C8: getTagger on a group returns the group's one derived Tagger adapter:
\* a call made when the adapter exists returns it and constructs and
\* registers nothing, and no two adapters wrap the same native object.
C8_Step ==
    (last'.op = "getTagger" /\ last'.ok) =>
        LET g == objectsById[last'.self] IN
        /\ last'.ret = ttb'[g]
        /\ ttb[g] # None =>
              /\ ttb'[g] = ttb[g]
              /\ kind' = kind /\ objectsById' = objectsById
              /\ tracked' = tracked /\ ~last'.native
        /\ \A a, b \in DOMAIN native_of' :
              a # b => native_of'[a] # native_of'[b]

C8_GetTaggerOnce == [][C8_Step]_vars

\* getTagger returned the cached adapter to a connection other than the one
\* that tracks it.
C8_Witness ==
    /\ last.op = "getTagger" /\ last.ok /\ ~last.native
    /\ last.ret \in Adapters /\ last.ret \notin tracked[last.conn]
    /\ Registered(last.ret)

\* C9: getDataObject returns a newly registered DataObject adapter under an
\* identity of its own; discard makes that identity stale and changes
\* nothing about any other adapter.
C9_Step ==
    /\ (last'.op = "getDataObject" /\ last'.ok) =>
          LET d == last'.ret IN
          /\ d \notin Adapters /\ d \in DOMAIN kind'
          /\ kind'[d] = DataKind /\ obj'[d] # None
          /\ Id(DataKind, d) \notin DOMAIN objectsById
          /\ Id(DataKind, d) \in DOMAIN objectsById'
          /\ objectsById'[Id(DataKind, d)] = d
    /\ (last'.op = "discard" /\ last'.ok) =>
          LET d == AdapterOf(last'.self) IN
          /\ last'.self \notin DOMAIN objectsById'
          /\ \A a \in Adapters \ {d} :
                /\ obj'[a] = obj[a]
                /\ IdOf(a) \in DOMAIN objectsById <=> IdOf(a) \in DOMAIN objectsById'
                /\ \A c \in Conns : a \in tracked[c] <=> a \in tracked'[c]

C9_DataObjectIndependent == [][C9_Step]_vars

\* A DataObject was discarded while its Iterator and the Tagger under it
\* are registered, tracked and hold their native objects.
C9_Witness ==
    /\ last.op = "discard" /\ last.ok
    /\ \E I, T \in Adapters :
          /\ kind[I] = IteratorKind /\ kind[T] = TaggerKind
          /\ nparent[native_of[AdapterOf(last.self)]] = native_of[I]
          /\ nparent[native_of[I]] = native_of[T]
          /\ Registered(I) /\ Registered(T) /\ Tracked(I) /\ Tracked(T)
          /\ obj[I] # None /\ obj[T] # None

\* C10: a createProxy with the default object id addresses the library
\* adapter the server registered: its enum_definitions request is served.
C10_DefaultProxyReachesRoot ==
    (last.op = "createProxy" /\ last.self = DefaultObjectId) => last.ok

\* C11: decoding the payload save_numpy_array made of an array gives back
\* the array's dtype, shape and contents, and load_numpy_array raises for
\* every class name other than 'numpy.ndarray'.
C11_CodecRoundTrip ==
    /\ codec.phase = "loaded" =>
          /\ codec.classname = NdarrayTag
          /\ codec.out = Loaded(codec.arr)
    /\ codec.phase = "rejected" =>
          /\ codec.classname # NdarrayTag
          /\ codec.out = Raised("AssertionError")
    /\ (codec.phase \in {"loaded", "rejected"} /\ codec.classname # NdarrayTag)
          => codec.phase = "rejected"

\* A two-dimensional big-endian array of four items came back from the
\* decoder.
C11_Witness ==
    /\ codec.phase = "loaded"
    /\ codec.arr.descr = Dtype(">", "u", 2)
    /\ Len(codec.arr.shape) = 2 /\ Len(codec.arr.data) = 4
    /\ \E i \in 1..4 : codec.arr.data[i] = 256

\* C12: the enum definitions are those computed at startup: no step changes
\* the library adapter class, and every enum_definitions request, whatever
\* was served before it, returns the class attribute _enums.
C12_Step ==
    /\ rpc' = rpc
    /\ (last'.op \in {"enum_definitions", "createProxy"} /\ last'.ok) =>
          last'.enums = rpc.enums

C12_EnumsNeverChange == [][C12_Step]_vars

\* The definitions were requested after a teardown had closed an adapter
\* and while another adapter is registered.
C12_Witness ==
    /\ last.op = "enum_definitions" /\ last.enums # {}
    /\ closeDone # {}
    /\ \E a \in Adapters : Registered(a)

\* The names the adapter generator of kind k leaves out.
ExcludedOf(k) ==
    CASE k = TaggerKind -> EXCLUDED_TAGGER_ATTRIBUTES
      [] k = DataKind -> {"thisown"}
      [] OTHER -> EXCLUDED_ITERATOR_ATTRIBUTES

\* The public methods and properties of native class cls that are not
\* excluded for kind k.
PublicMembers(cls, k) ==
    {a \in lib[cls].attrs : /\ a.kind \in {"method", "property"}
                            /\ ~startswith(a.name, "_")
                            /\ a.name \notin ExcludedOf(k)}

\* C13: each generated adapter class has a member for every public method
\* and property of its native class that is not excluded for its kind,
\* forwarding a method as a method and a property as a property, and has no
\* forwarding member that is excluded or starts with an underscore.
C13_AdaptersForwardAll ==
    (rpc.built /\ rpc.error = "") =>
        \A ad \in rpc.adapters :
            /\ \A a \in PublicMembers(ad.cls, ad.kind) :
                  \E m \in ad.members :
                      m.name = a.name /\ m.forwards \in {a.kind, "custom"}
            /\ \A m \in ad.members :
                  m.forwards # "custom" =>
                      m.name \notin ExcludedOf(ad.kind) /\ ~startswith(m.name, "_")

\* The adapter kinds native class name matches.
KindsOf(name) ==
    {b \in {"IteratorBase", "TimeTaggerBase", "SynchronizedMeasurements"} :
        b \in lib[name].bases}
    \cup {"Enum" : x \in {y \in {name} : "Enum" \in lib[y].bases \/ y \in LegacyEnums}}
    \cup {DataKind : x \in {y \in DOMAIN lib :
                                /\ DataName(y) = name
                                /\ "IteratorBase" \in lib[y].bases
                                /\ \E a \in lib[y].attrs : a.name = "getDataObject"}}

\* The classes of the library that are not excluded.
Classified ==
    {n \in DOMAIN lib : /\ ~lib[n].isfunction
                        /\ n \notin EXCLUDED_LIBRARY_MEMBERS
                        /\ ~startswith(n, "_")}

\* C14: when a class of the library that is not excluded matches no adapter
\* kind or more than one, start_server ends in an error.
C14_MisclassifiedIsFatal ==
    (rpc.built /\ \E n \in Classified : Cardinality(KindsOf(n)) # 1) =>
        rpc.error # ""

\* The requests that return a new adapter.
CreateOps == {"createTimeTagger", "Iterator", "SynchronizedMeasurements",
              "getDataObject", "getTagger"}

\* C15: when a request returns a new adapter, the adapter is in the resource
\* set of the connection that made the request, its identity resolves to it
\* and it holds a native object.
C15_Step ==
    (last'.op \in CreateOps /\ last'.ok) =>
        LET a == last'.ret IN
        /\ last'.op # "getTagger" => a \notin Adapters
        /\ a \notin Adapters =>
              /\ a \in DOMAIN kind'
              /\ a \in tracked'[last'.conn]
              /\ proxy2object(objectsById', Id(kind'[a], a)) = a
              /\ obj'[a] # None

C15_RegisteredBeforeReturned == [][C15_Step]_vars

\* The first getTagger of a group returned the new Tagger adapter.
C15_Witness ==
    /\ last.op = "getTagger" /\ last.ok /\ last.native
    /\ Registered(last.ret) /\ last.ret \in tracked[last.conn]

\* C16: every registered adapter holds a native object, and an adapter on
\* which close has been invoked holds none and is not registered.
C16_HandleUntilClose ==
    \A a \in Adapters :
        /\ Registered(a) => obj[a] # None
        /\ a \in closeInvoked => (obj[a] = None /\ ~Registered(a))

\* C17: a close of a Tagger adapter whose device-free call raises an
\* AttributeError returns without an error and leaves the adapter with no
\* native object, in no resource set and out of the registry.
C17_MissingAttributeSwallowed ==
    (last.op = "close" /\ last.swallowed) =>
        LET a == AdapterOf(last.self) IN
        /\ last.ok
        /\ obj[a] = None /\ ~Tracked(a) /\ ~Registered(a) /\ Stale(a)

\* The device-free call of a close of a registered Tagger adapter raised an
\* AttributeError.
C17_Witness ==
    /\ last.op = "close" /\ last.swallowed /\ last.native
    /\ kind[AdapterOf(last.self)] = TaggerKind
    /\ AdapterOf(last.self) \notin reclosed

C19_FreedAtMostOnce ==
    \A h \in Natives : freeCalls[h] <= 1

\* C20: a constructor or a registerMeasurement / unregisterMeasurement that
\* is handed the identity of an adapter whose close is under way fails as on
\* a stale identity, and invokes nothing native.
C20_Step ==
    (/\ last'.op \in {"Iterator", "SynchronizedMeasurements",
                       "registerMeasurement", "unregisterMeasurement"}
     /\ last'.ref \in Proxies
     /\ AdapterOf(last'.ref) \in closing)
        => (~last'.ok /\ ~last'.native)

C20_NoNullHandleSeen == [][C20_Step]_vars

\* C21: the adapter a getTagger request returns is registered and holds a
\* native object.
C21_GetTaggerReturnsLive ==
    (last.op = "getTagger" /\ last.ok) =>
        (Registered(last.ret) /\ obj[last.ret] # None)

\* C23: the teardown of a connection leaves every adapter outside that
\* connection's resource set as it was: its native handle, its registration
\* and its membership of the resource sets.
C23_Step ==
    last'.op = "teardown" =>
        \A a \in Adapters \ tracked[last'.conn] :
            /\ obj'[a] = obj[a]
            /\ (IdOf(a) \in DOMAIN objectsById') = (IdOf(a) \in DOMAIN objectsById)
            /\ \A c \in Conns : (a \in tracked'[c]) = (a \in tracked[c])

C23_TeardownLeavesOthers == [][C23_Step]_vars

\* A connection that made no adapter was torn down while an Iterator made
\* over another connection is registered, tracked there and holds its
\* native object.
C23_Witness ==
    /\ last.op = "teardown" /\ last.swept = {}
    /\ \E a \in Adapters :
          /\ kind[a] = IteratorKind
          /\ Registered(a) /\ obj[a] # None
          /\ \E c \in Conns \ {last.conn} : a \in tracked[c]

\* C24: an adapter on which close was invoked and did not run to its end is
\* as it was before the close: it holds its native object.  No adapter
\* without a native object is registered or in a resource set.
C24_NotHalfClosed ==
    \A a \in Adapters :
        /\ a \in closeInvoked \ closeDone => obj[a] # None
        /\ obj[a] = None => (~Registered(a) /\ ~Tracked(a))

\* C22: no two adapters were constructed around the same native object; of
\* the adapters around one native object at most one is in the registry or
\* in a resource set.
C22_OneDerivedTagger ==
    \A a, b \in Adapters :
        native_of[a] = native_of[b] => a = b

====
